---------------------------- MODULE Spec2Model ----------------------------
(***************************************************************************)
(* iframe-finder (src/src/index.ts): recursive lookup of iframes and       *)
(* elements across nested documents.                                       *)
(*                                                                         *)
(* The host's DOM is the state.  A node is an element of some document;    *)
(* node k is the k-th element created.  Document 0 is the top document,    *)
(* document k > 0 is the nested document of iframe k.  Elements are only   *)
(* ever appended, in the order a parser meets them (an element is added to *)
(* the document being built or to one that encloses it), so the elements   *)
(* of a document in ascending number are in document order and every       *)
(* ordered tree has exactly one numbering.                                 *)
(*                                                                         *)
(* Each public function of the library is one action: it runs the search   *)
(* on the DOM as it stands and records the call and how it ended.  The     *)
(* same functions are also run one step at a time, with the stack of the   *)
(* recursive calls in the state (Begin..., Step).                          *)
(***************************************************************************)
EXTENDS Integers, Sequences, FiniteSets

VARIABLES dom, call, outcome, run

vars == <<dom, call, outcome, run>>

----------------------------------------------------------------------------
(* Bounds of the model *)

\* elements in the whole DOM
MaxNodes == 5
\* elements (of either tag) carrying the searched id
MaxTargets == 2
\* iframes whose nested document is not obtained (cross-origin or not loaded)
MaxUnreachable == 1
\* elements that are not iframes
MaxDivs == 1
\* largest finite maxDepth a caller passes
MaxDepthArg == 1

----------------------------------------------------------------------------
(* The host: elements, attributes, documents *)

Ids == {"target", "other"}

Tags == {"iframe", "div"}

\* contentDocument of an iframe: a document, null, or a SecurityError
Contents == {"doc", "absent", "blocked"}

TopDocument == 0

Nodes == 1..Len(dom)

IsIframe(n) == dom[n].tag = "iframe"

\* the documents that exist: the top document and every nested document
Documents == {TopDocument} \cup {n \in Nodes : IsIframe(n) /\ dom[n].content = "doc"}

RECURSIVE Enclosing(_)
\* a document and the documents that enclose it
Enclosing(doc) ==
    IF doc = TopDocument THEN {TopDocument} ELSE {doc} \cup Enclosing(dom[doc].owner)

\* how an evaluation ends: with a value, with null, or by throwing
Value(v) == [kind |-> "value", node |-> v, list |-> <<>>]
List(s) == [kind |-> "value", node |-> 0, list |-> s]
Null == [kind |-> "null", node |-> 0, list |-> <<>>]
Thrown == [kind |-> "throw", node |-> 0, list |-> <<>>]
NoCall == [kind |-> "none", node |-> 0, list |-> <<>>]

\* iframe.contentDocument
ContentDocument(iframe) ==
    CASE dom[iframe].content = "doc" -> Value(iframe)
      [] dom[iframe].content = "absent" -> Null
      [] OTHER -> Thrown

\* does the element match the selector; "[" is not a selector
Selectors == {"#target", "iframe", "["}

ValidSelector(sel) == sel # "["

Matches(sel, n) ==
    CASE sel = "#target" -> dom[n].id = "target"
      [] sel = "iframe" -> IsIframe(n)
      [] OTHER -> FALSE

\* the elements of doc, in document order
ElementsOf(doc) == SelectSeq([i \in 1..Len(dom) |-> i], LAMBDA n : dom[n].owner = doc)

\* doc.querySelectorAll(sel), for a valid selector
QuerySelectorAll(doc, sel) == SelectSeq(ElementsOf(doc), LAMBDA n : Matches(sel, n))

\* doc.querySelector(sel), for a valid selector
QuerySelector(doc, sel) ==
    LET all == QuerySelectorAll(doc, sel)
    IN  IF all = <<>> THEN Null ELSE Value(all[1])

----------------------------------------------------------------------------
(* The caller's arguments *)

\* maxDepth: a finite number or Infinity (the default)
Infinity == [finite |-> FALSE, n |-> 0]
Finite(d) == [finite |-> TRUE, n |-> d]
MaxDepths == {Finite(d) : d \in 0..MaxDepthArg} \cup {Infinity}

\* a limit that counts the root as the first level
DepthExceededOffByOne(currentDepth, maxDepth) ==
    maxDepth.finite /\ currentDepth >= maxDepth.n

\* currentDepth > maxDepth
DepthExceeded(currentDepth, maxDepth) == maxDepth.finite /\ currentDepth > maxDepth.n

\* a caller's predicate reads one attribute of the iframe and answers or throws
PredOutcomes == {"true", "false", "throw"}
Predicates == [reads : {"id"}, on : [Ids -> PredOutcomes]]

\* predicate(iframe)
ApplyPredicate(p, iframe) ==
    p.on[IF p.reads = "id" THEN dom[iframe].id ELSE dom[iframe].name]

\* (iframe) => iframe.id === id
IdPredicate(id) ==
    [reads |-> "id", on |-> [x \in Ids |-> IF x = id THEN "true" ELSE "false"]]

\* (iframe) => iframe.name === name
NamePredicate(name) ==
    [reads |-> "name", on |-> [x \in Ids |-> IF x = name THEN "true" ELSE "false"]]

----------------------------------------------------------------------------
(* findIframeRecursive: the two passes over the iframes of one document *)

RECURSIVE FirstPass(_, _, _)
RECURSIVE SecondPass(_, _, _, _, _)
RECURSIVE FindIframeRecursive(_, _, _, _)
RECURSIVE FirstPassLast(_, _, _)
RECURSIVE SecondPassNoCatch(_, _, _, _, _)

\* a first pass that keeps the last iframe the predicate accepts
FirstPassLast(predicate, iframes, i) ==
    IF i > Len(iframes) THEN Null
    ELSE LET later == FirstPassLast(predicate, iframes, i + 1)
         IN  CASE ApplyPredicate(predicate, iframes[i]) = "throw" -> Thrown
               [] later.kind # "null" -> later
               [] ApplyPredicate(predicate, iframes[i]) = "true" -> Value(iframes[i])
               [] OTHER -> Null

\* first pass: the first iframe of the list, from position i, the predicate
\* accepts; a throwing predicate ends the loop by throwing
FirstPass(predicate, iframes, i) ==
    IF i > Len(iframes) THEN Null
    ELSE CASE ApplyPredicate(predicate, iframes[i]) = "throw" -> Thrown
           [] ApplyPredicate(predicate, iframes[i]) = "true" -> Value(iframes[i])
           [] OTHER -> FirstPass(predicate, iframes, i + 1)

\* a second pass without the try block: a failed read of contentDocument ends
\* the search
SecondPassNoCatch(predicate, iframes, i, currentDepth, maxDepth) ==
    IF i > Len(iframes) THEN Null
    ELSE LET contentDoc == ContentDocument(iframes[i])
             rest == SecondPassNoCatch(predicate, iframes, i + 1, currentDepth, maxDepth)
         IN  CASE contentDoc.kind = "throw" -> Thrown
               [] contentDoc.kind = "null" -> rest
               [] OTHER ->
                    LET foundInNested ==
                            FindIframeRecursive(predicate, contentDoc.node,
                                                currentDepth + 1, maxDepth)
                    IN  IF foundInNested.kind # "null" THEN foundInNested ELSE rest

\* second pass: the body of the loop is one try block, which holds the read
\* of contentDocument and the recursive call; its catch continues the loop
SecondPass(predicate, iframes, i, currentDepth, maxDepth) ==
    IF i > Len(iframes) THEN Null
    ELSE LET contentDoc == ContentDocument(iframes[i])
             rest == SecondPass(predicate, iframes, i + 1, currentDepth, maxDepth)
         IN  IF contentDoc.kind # "value" THEN rest
             ELSE LET foundInNested ==
                          FindIframeRecursive(predicate, contentDoc.node,
                                              currentDepth + 1, maxDepth)
                  IN  IF foundInNested.kind = "value" THEN foundInNested ELSE rest

\* a search of the current level only
FindIframeRecursiveNoDescent(predicate, doc, currentDepth, maxDepth) ==
    IF DepthExceeded(currentDepth, maxDepth) THEN Null
    ELSE FirstPass(predicate, QuerySelectorAll(doc, "iframe"), 1)

\* a plain depth-first search: the nested documents before the current level
FindIframeRecursiveDescentFirst(predicate, doc, currentDepth, maxDepth) ==
    IF DepthExceeded(currentDepth, maxDepth) THEN Null
    ELSE LET iframes == QuerySelectorAll(doc, "iframe")
             nested == SecondPass(predicate, iframes, 1, currentDepth, maxDepth)
         IN  IF nested.kind # "null" THEN nested
             ELSE FirstPass(predicate, iframes, 1)

FindIframeRecursive(predicate, doc, currentDepth, maxDepth) ==
    IF DepthExceeded(currentDepth, maxDepth) THEN Null
    ELSE LET iframes == QuerySelectorAll(doc, "iframe")
             found == FirstPass(predicate, iframes, 1)
         IN  IF found.kind # "null" THEN found
             ELSE SecondPass(predicate, iframes, 1, currentDepth, maxDepth)

\* findIframe(predicate, {rootDocument, maxDepth})
FindIframe(predicate, rootDocument, maxDepth) ==
    FindIframeRecursive(predicate, rootDocument, 0, maxDepth)

\* findIframeById(id, {rootDocument, maxDepth})
FindIframeById(id, rootDocument, maxDepth) ==
    FindIframeRecursive(IdPredicate(id), rootDocument, 0, maxDepth)

\* findIframeByName(name, {rootDocument, maxDepth})
FindIframeByName(name, rootDocument, maxDepth) ==
    FindIframeRecursive(NamePredicate(name), rootDocument, 0, maxDepth)

\* Array.from(iframes).filter(predicate): a throwing predicate ends it
RECURSIVE Filter(_, _, _, _)
Filter(predicate, iframes, i, kept) ==
    IF i > Len(iframes) THEN List(kept)
    ELSE CASE ApplyPredicate(predicate, iframes[i]) = "throw" -> Thrown
           [] ApplyPredicate(predicate, iframes[i]) = "true" ->
                  Filter(predicate, iframes, i + 1, Append(kept, iframes[i]))
           [] OTHER -> Filter(predicate, iframes, i + 1, kept)

\* a findAllIframes that takes the iframes of every document of the page
FindAllIframesDeep(predicate, rootDocument) ==
    Filter(predicate,
           SelectSeq([i \in 1..Len(dom) |-> i],
                     LAMBDA n : IsIframe(n) /\ rootDocument \in Enclosing(dom[n].owner)),
           1, <<>>)

\* findAllIframes(predicate, rootDocument)
FindAllIframes(predicate, rootDocument) ==
    Filter(predicate, QuerySelectorAll(rootDocument, "iframe"), 1, <<>>)

----------------------------------------------------------------------------
(* findElementRecursive and findAllElementsRecursive *)

RECURSIVE ElementLoop(_, _, _, _, _)
RECURSIVE FindElementRecursive(_, _, _, _)

\* a loop that returns, instead of continuing, at an iframe without a document
ElementLoopStopAtUnreachable(selector, iframes, i, currentDepth, maxDepth) ==
    IF i > Len(iframes) THEN Null
    ELSE LET contentDoc == ContentDocument(iframes[i])
         IN  IF contentDoc.kind # "value" THEN Null
             ELSE LET foundInNested ==
                          FindElementRecursive(selector, contentDoc.node,
                                               currentDepth + 1, maxDepth)
                  IN  IF foundInNested.kind = "value" THEN foundInNested
                      ELSE ElementLoop(selector, iframes, i + 1, currentDepth, maxDepth)

\* the loop over the iframes of a document, from position i: one try block
\* around the read of contentDocument and the recursive call
ElementLoop(selector, iframes, i, currentDepth, maxDepth) ==
    IF i > Len(iframes) THEN Null
    ELSE LET contentDoc == ContentDocument(iframes[i])
             rest == ElementLoop(selector, iframes, i + 1, currentDepth, maxDepth)
         IN  IF contentDoc.kind # "value" THEN rest
             ELSE LET foundInNested ==
                          FindElementRecursive(selector, contentDoc.node,
                                               currentDepth + 1, maxDepth)
                  IN  IF foundInNested.kind = "value" THEN foundInNested ELSE rest

\* a search that looks into the nested documents before the document itself
FindElementRecursiveNestedFirst(selector, doc, currentDepth, maxDepth) ==
    IF DepthExceeded(currentDepth, maxDepth) THEN Null
    ELSE IF ~ValidSelector(selector) THEN Thrown
    ELSE LET nested == ElementLoop(selector, QuerySelectorAll(doc, "iframe"), 1,
                                   currentDepth, maxDepth)
         IN  IF nested.kind = "value" THEN nested ELSE QuerySelector(doc, selector)

FindElementRecursive(selector, doc, currentDepth, maxDepth) ==
    IF DepthExceeded(currentDepth, maxDepth) THEN Null
    ELSE IF ~ValidSelector(selector) THEN Thrown
    ELSE LET element == QuerySelector(doc, selector)
         IN  IF element.kind = "value" THEN element
             ELSE ElementLoop(selector, QuerySelectorAll(doc, "iframe"), 1,
                              currentDepth, maxDepth)

\* findElement(selector, {rootDocument, maxDepth})
FindElement(selector, rootDocument, maxDepth) ==
    FindElementRecursive(selector, rootDocument, 0, maxDepth)

RECURSIVE AllElementsLoop(_, _, _, _, _, _)
RECURSIVE FindAllElementsRecursive(_, _, _, _, _)

\* the loop over the iframes of a document; results is the shared array, and
\* what a nested call pushed before it threw stays pushed
AllElementsLoop(selector, iframes, i, currentDepth, maxDepth, results) ==
    IF i > Len(iframes) THEN List(results)
    ELSE LET contentDoc == ContentDocument(iframes[i])
         IN  IF contentDoc.kind # "value"
             THEN AllElementsLoop(selector, iframes, i + 1, currentDepth, maxDepth,
                                  results)
             ELSE AllElementsLoop(selector, iframes, i + 1, currentDepth, maxDepth,
                      FindAllElementsRecursive(selector, contentDoc.node,
                                               currentDepth + 1, maxDepth,
                                               results).list)

\* the nested documents' matches pushed before the document's own
FindAllElementsRecursiveNestedFirst(selector, doc, currentDepth, maxDepth, results) ==
    IF DepthExceeded(currentDepth, maxDepth) THEN List(results)
    ELSE IF ~ValidSelector(selector) THEN [Thrown EXCEPT !.list = results]
    ELSE List(AllElementsLoop(selector, QuerySelectorAll(doc, "iframe"), 1,
                              currentDepth, maxDepth, results).list
              \o QuerySelectorAll(doc, selector))

\* a search that never looks at the depth limit
FindAllElementsRecursiveNoLimit(selector, doc, currentDepth, maxDepth, results) ==
    IF ~ValidSelector(selector) THEN [Thrown EXCEPT !.list = results]
    ELSE AllElementsLoop(selector, QuerySelectorAll(doc, "iframe"), 1,
                         currentDepth, maxDepth,
                         results \o QuerySelectorAll(doc, selector))

\* ends with the results array as it stands; kind "throw" when it threw
FindAllElementsRecursive(selector, doc, currentDepth, maxDepth, results) ==
    IF DepthExceeded(currentDepth, maxDepth) THEN List(results)
    ELSE IF ~ValidSelector(selector) THEN [Thrown EXCEPT !.list = results]
    ELSE AllElementsLoop(selector, QuerySelectorAll(doc, "iframe"), 1,
                         currentDepth, maxDepth,
                         results \o QuerySelectorAll(doc, selector))

\* findAllElements(selector, {rootDocument, maxDepth})
FindAllElements(selector, rootDocument, maxDepth) ==
    LET r == FindAllElementsRecursive(selector, rootDocument, 0, maxDepth, <<>>)
    IN  IF r.kind = "throw" THEN Thrown ELSE r

----------------------------------------------------------------------------
(* The state machine: the page grows, the library is called *)

NoPredicate == [reads |-> "id", on |-> [x \in Ids |-> "false"]]

Call(op, predicate, selector, rootDocument, maxDepth) ==
    [op |-> op, predicate |-> predicate, selector |-> selector,
     rootDocument |-> rootDocument, maxDepth |-> maxDepth]

Idle == Call("none", NoPredicate, "", TopDocument, Infinity)

\* no call on the stack
NoRun == [stack |-> <<>>, entered |-> <<>>, results |-> <<>>, steps |-> 0]

Init ==
    /\ dom = <<>>
    /\ call = Idle
    /\ outcome = NoCall
    /\ run = NoRun

\* the documents still being built: that of the last element and its enclosing ones
OpenDocuments ==
    IF dom = <<>> THEN {TopDocument}
    ELSE LET last == Len(dom)
         IN  IF IsIframe(last) /\ dom[last].content = "doc"
             THEN Enclosing(last)
             ELSE Enclosing(dom[last].owner)

Element(tag, id, name, owner, content) ==
    [tag |-> tag, id |-> id, name |-> name, owner |-> owner, content |-> content]

\* the host appends an iframe to a document; the pages of the model name an
\* iframe after its id
AddIframe(owner, id, content) ==
    /\ call = Idle
    /\ Len(dom) < MaxNodes
    /\ owner \in OpenDocuments
    /\ id = "target" => Cardinality({n \in Nodes : dom[n].id = "target"}) < MaxTargets
    /\ content # "doc"
           => Cardinality({n \in Nodes : IsIframe(n) /\ dom[n].content # "doc"})
                  < MaxUnreachable
    /\ dom' = Append(dom, Element("iframe", id, id, owner, content))
    /\ UNCHANGED <<call, outcome, run>>

\* the host appends an element that is no iframe; one that no selector of the
\* model matches is never seen by the library, so it carries the searched id
AddDiv(owner) ==
    /\ call = Idle
    /\ Len(dom) < MaxNodes
    /\ owner \in OpenDocuments
    /\ Cardinality({n \in Nodes : ~IsIframe(n)}) < MaxDivs
    /\ Cardinality({n \in Nodes : dom[n].id = "target"}) < MaxTargets
    /\ dom' = Append(dom, Element("div", "target", "", owner, "none"))
    /\ UNCHANGED <<call, outcome, run>>

CallFindIframeById(id, rootDocument, maxDepth) ==
    /\ call = Idle
    /\ call' = Call("findIframeById", IdPredicate(id), "", rootDocument, maxDepth)
    /\ outcome' = FindIframeById(id, rootDocument, maxDepth)
    /\ UNCHANGED <<dom, run>>

CallFindIframeByName(name, rootDocument, maxDepth) ==
    /\ call = Idle
    /\ call' = Call("findIframeByName", NamePredicate(name), "", rootDocument, maxDepth)
    /\ outcome' = FindIframeByName(name, rootDocument, maxDepth)
    /\ UNCHANGED <<dom, run>>

CallFindIframe(predicate, rootDocument, maxDepth) ==
    /\ call = Idle
    /\ call' = Call("findIframe", predicate, "", rootDocument, maxDepth)
    /\ outcome' = FindIframe(predicate, rootDocument, maxDepth)
    /\ UNCHANGED <<dom, run>>

CallFindAllIframes(predicate, rootDocument) ==
    /\ call = Idle
    /\ call' = Call("findAllIframes", predicate, "", rootDocument, Infinity)
    /\ outcome' = FindAllIframes(predicate, rootDocument)
    /\ UNCHANGED <<dom, run>>

CallFindElement(selector, rootDocument, maxDepth) ==
    /\ call = Idle
    /\ call' = Call("findElement", NoPredicate, selector, rootDocument, maxDepth)
    /\ outcome' = FindElement(selector, rootDocument, maxDepth)
    /\ UNCHANGED <<dom, run>>

CallFindAllElements(selector, rootDocument, maxDepth) ==
    /\ call = Idle
    /\ call' = Call("findAllElements", NoPredicate, selector, rootDocument, maxDepth)
    /\ outcome' = FindAllElements(selector, rootDocument, maxDepth)
    /\ UNCHANGED <<dom, run>>

\* the caller has taken the result: every call runs to completion and keeps nothing
Return ==
    /\ call # Idle
    /\ outcome # NoCall
    /\ call' = Idle
    /\ outcome' = NoCall
    /\ run' = NoRun
    /\ UNCHANGED dom

\* the caller searches from its own document, the default of rootDocument; a
\* nested document taken as the root is the top document of a smaller page,
\* which the model reaches as well
Next ==
    \/ \E owner \in Documents, id \in Ids, content \in Contents :
           AddIframe(owner, id, content)
    \/ \E owner \in Documents : AddDiv(owner)
    \/ \E id \in Ids, d \in MaxDepths : CallFindIframeById(id, TopDocument, d)
    \/ \E name \in Ids, d \in MaxDepths : CallFindIframeByName(name, TopDocument, d)
    \/ \E p \in Predicates, d \in MaxDepths : CallFindIframe(p, TopDocument, d)
    \/ \E p \in Predicates : CallFindAllIframes(p, TopDocument)
    \/ \E sel \in Selectors, d \in MaxDepths : CallFindElement(sel, TopDocument, d)
    \/ \E sel \in Selectors, d \in MaxDepths : CallFindAllElements(sel, TopDocument, d)
    \/ Return

Spec == Init /\ [][Next]_vars

----------------------------------------------------------------------------
(* The same functions, one step at a time *)

\* the call is one of the three searches for an iframe
IframeSearch == call.op \in {"findIframe", "findIframeById", "findIframeByName"}

\* an activation of findIframeRecursive, findElementRecursive or
\* findAllElementsRecursive: its document and depth, where it stands (at its
\* start, in its loop over the iframes at position i, or taking up what the
\* nested call gave)
Frame(doc, currentDepth) ==
    [doc |-> doc, depth |-> currentDepth, phase |-> "call", i |-> 1, got |-> Null]

Top == run.stack[Len(run.stack)]

Running == run.stack # <<>>

\* the pages that calls are run on step by step have at most this many nodes
MaxRunNodes == 4

\* the steps a search of the page takes at most: per document its start, the
\* end of its loop and, but for the root, the return into its parent, per
\* iframe one turn of a loop
StepBudget ==
    3 * Cardinality(Documents) + Cardinality({n \in Nodes : IsIframe(n)}) - 1

\* the public function calls its recursive function on the root, at depth 0
Begin(op, predicate, selector, rootDocument, maxDepth) ==
    /\ call = Idle
    /\ Len(dom) <= MaxRunNodes
    /\ call' = Call(op, predicate, selector, rootDocument, maxDepth)
    /\ run' = [NoRun EXCEPT !.stack = <<Frame(rootDocument, 0)>>,
                            !.entered = <<rootDocument>>]
    /\ UNCHANGED <<dom, outcome>>

BeginFindIframeById(id, rootDocument, maxDepth) ==
    Begin("findIframeById", IdPredicate(id), "", rootDocument, maxDepth)

BeginFindIframeByName(name, rootDocument, maxDepth) ==
    Begin("findIframeByName", NamePredicate(name), "", rootDocument, maxDepth)

BeginFindIframe(predicate, rootDocument, maxDepth) ==
    Begin("findIframe", predicate, "", rootDocument, maxDepth)

BeginFindAllIframes(predicate, rootDocument) ==
    Begin("findAllIframes", predicate, "", rootDocument, Infinity)

BeginFindElement(selector, rootDocument, maxDepth) ==
    Begin("findElement", NoPredicate, selector, rootDocument, maxDepth)

BeginFindAllElements(selector, rootDocument, maxDepth) ==
    Begin("findAllElements", NoPredicate, selector, rootDocument, maxDepth)

\* what the public function returns, given what its recursive function gave
Returned(v, results) ==
    CASE call.op = "findAllElements" /\ v.kind = "throw" -> Thrown
      [] call.op = "findAllElements" -> List(results)
      [] OTHER -> v

\* the activation on top returns (or throws) v: it leaves the stack, and its
\* caller, the activation below or the public function, has v
Finish(v, results) ==
    LET below == SubSeq(run.stack, 1, Len(run.stack) - 1)
    IN  /\ run' = [run EXCEPT
                      !.stack = IF below = <<>> THEN <<>>
                                ELSE [below EXCEPT ![Len(below)].got = v],
                      !.results = results,
                      !.steps = @ + 1]
        /\ outcome' = IF below = <<>> THEN Returned(v, results) ELSE outcome

\* the activation on top goes on, as frame f
Continue(f, results) ==
    /\ run' = [run EXCEPT !.stack[Len(run.stack)] = f,
                          !.results = results,
                          !.steps = @ + 1]
    /\ UNCHANGED outcome

\* a loop that stays at position i
NextIframeStuck(i) == i

\* position i of a loop, the next one
NextIframe(i) == i + 1

\* the activation on top calls its recursive function on doc, one level down
Descend(doc) ==
    /\ run' = [run EXCEPT
                  !.stack = Append([run.stack EXCEPT ![Len(run.stack)].phase = "resume"],
                                   Frame(doc, Top.depth + 1)),
                  !.entered = Append(@, doc),
                  !.steps = @ + 1]
    /\ UNCHANGED outcome

\* the start of a recursive function: the depth check and the search of the
\* document itself
StepCall ==
    /\ Top.phase = "call"
    /\ CASE call.op = "findAllIframes" ->
               Finish(FindAllIframes(call.predicate, Top.doc), run.results)
         [] DepthExceeded(Top.depth, call.maxDepth) -> Finish(Null, run.results)
         [] IframeSearch ->
               LET found == FirstPass(call.predicate,
                                      QuerySelectorAll(Top.doc, "iframe"), 1)
               IN  IF found.kind # "null" THEN Finish(found, run.results)
                   ELSE Continue([Top EXCEPT !.phase = "loop"], run.results)
         [] ~ValidSelector(call.selector) -> Finish(Thrown, run.results)
         [] call.op = "findElement" ->
               LET element == QuerySelector(Top.doc, call.selector)
               IN  IF element.kind = "value" THEN Finish(element, run.results)
                   ELSE Continue([Top EXCEPT !.phase = "loop"], run.results)
         [] OTHER ->
               Continue([Top EXCEPT !.phase = "loop"],
                        run.results \o QuerySelectorAll(Top.doc, call.selector))

\* one turn of the loop over the iframes: the end of the loop, an iframe that
\* gives no document (null, or the catch), or the recursive call
StepLoop ==
    /\ Top.phase = "loop"
    /\ LET iframes == QuerySelectorAll(Top.doc, "iframe")
       IN  IF Top.i > Len(iframes) THEN Finish(Null, run.results)
           ELSE LET contentDoc == ContentDocument(iframes[Top.i])
                IN  IF contentDoc.kind # "value"
                    THEN Continue([Top EXCEPT !.i = NextIframe(@)], run.results)
                    ELSE Descend(contentDoc.node)

\* the recursive call is back: a found element is returned, anything else
\* (nothing found, or an exception, which the catch takes) continues the loop
StepResume ==
    /\ Top.phase = "resume"
    /\ IF Top.got.kind = "value" /\ call.op # "findAllElements"
       THEN Finish(Top.got, run.results)
       ELSE Continue([Top EXCEPT !.phase = "loop", !.i = NextIframe(@)], run.results)

\* one step of the call that is running
Step ==
    /\ Running
    /\ run.steps < StepBudget
    /\ (StepCall \/ StepLoop \/ StepResume)
    /\ UNCHANGED <<dom, call>>

NextRun ==
    \/ \E owner \in Documents, id \in Ids, content \in Contents :
           AddIframe(owner, id, content)
    \/ \E owner \in Documents : AddDiv(owner)
    \/ \E id \in Ids, d \in MaxDepths : BeginFindIframeById(id, TopDocument, d)
    \/ \E name \in Ids, d \in MaxDepths : BeginFindIframeByName(name, TopDocument, d)
    \/ \E p \in Predicates, d \in MaxDepths : BeginFindIframe(p, TopDocument, d)
    \/ \E p \in Predicates : BeginFindAllIframes(p, TopDocument)
    \/ \E sel \in Selectors, d \in MaxDepths : BeginFindElement(sel, TopDocument, d)
    \/ \E sel \in Selectors, d \in MaxDepths : BeginFindAllElements(sel, TopDocument, d)
    \/ Step
    \/ Return

\* a call, once begun, is run to its end: nothing suspends it
SpecRun == Init /\ [][NextRun]_vars /\ WF_vars(Step)

----------------------------------------------------------------------------
(* What the properties speak of, read off the DOM and not off the search *)

RECURSIVE DepthOf(_)
\* iframe boundaries crossed from the top document to doc
DepthOf(doc) == IF doc = TopDocument THEN 0 ELSE 1 + DepthOf(dom[doc].owner)

\* the documents reachable from root through accessible, present nested documents
ReachableFrom(root) == {doc \in Documents : root \in Enclosing(doc)}

\* those within maxDepth of root
Within(root, maxDepth) ==
    {doc \in ReachableFrom(root) :
        maxDepth.finite => DepthOf(doc) - DepthOf(root) <= maxDepth.n}

\* a predicate that answers true or false on every iframe
Boolean(p) == \A x \in Ids : p.on[x] # "throw"

Satisfies(p, n) == IsIframe(n) /\ ApplyPredicate(p, n) = "true"

\* the iframes satisfying p in the documents within maxDepth of root
Satisfying(p, root, maxDepth) ==
    {n \in Nodes : Satisfies(p, n) /\ dom[n].owner \in Within(root, maxDepth)}

\* the elements matching sel in the documents within maxDepth of root
Matching(sel, root, maxDepth) ==
    {n \in Nodes : Matches(sel, n) /\ dom[n].owner \in Within(root, maxDepth)}

RECURSIVE Branch(_, _)
\* the iframe of document anc through which the nested document doc is reached
Branch(anc, doc) == IF dom[doc].owner = anc THEN doc ELSE Branch(anc, dom[doc].owner)

\* the innermost document enclosing both
Fork(d1, d2) ==
    CHOOSE a \in Enclosing(d1) \cap Enclosing(d2) :
        \A b \in Enclosing(d1) \cap Enclosing(d2) : DepthOf(b) <= DepthOf(a)

\* d1 comes before d2 in the depth-first pre-order of the documents: d1 encloses
\* d2, or where their paths part the iframe towards d1 is the earlier one
DocBefore(d1, d2) ==
    /\ d1 # d2
    /\ \/ d1 \in Enclosing(d2)
       \/ /\ d2 \notin Enclosing(d1)
          /\ Branch(Fork(d1, d2), d1) < Branch(Fork(d1, d2), d2)

\* element a comes before element b in pre-order: by document, then by
\* document order within the document
ElementBefore(a, b) ==
    \/ DocBefore(dom[a].owner, dom[b].owner)
    \/ dom[a].owner = dom[b].owner /\ a < b

Range(seq) == {seq[i] : i \in 1..Len(seq)}

\* the iframes of doc, as a set
IframesIn(doc) == {n \in Nodes : IsIframe(n) /\ dom[n].owner = doc}

\* some iframe of the page gives no nested document
SomeUnreachable == \E n \in Nodes : IsIframe(n) /\ dom[n].content # "doc"

----------------------------------------------------------------------------
\* C1: findIframe with a boolean predicate P and maxDepth d returns null or an
\* iframe that satisfies P and lies in a document reachable from the root
\* within depth d, and it returns null exactly when no such iframe exists.
C1_FindIframeSoundComplete ==
    (call.op = "findIframe" /\ Boolean(call.predicate)) =>
        LET S == Satisfying(call.predicate, call.rootDocument, call.maxDepth)
        IN  /\ outcome.kind \in {"value", "null"}
            /\ outcome.kind = "value" => outcome.node \in S
            /\ outcome.kind = "null" <=> S = {}

\* a match found two documents down, past an iframe that gives no document
C1_Witness ==
    /\ call.op = "findIframe"
    /\ Boolean(call.predicate)
    /\ outcome.kind = "value"
    /\ DepthOf(dom[outcome.node].owner) = 2
    /\ SomeUnreachable

----------------------------------------------------------------------------
\* C2 as stated: the iframe returned by findIframe / findIframeById /
\* findIframeByName lies in a document of minimal depth among the documents
\* within maxDepth that hold an iframe satisfying P.
C2_ShallowestWins ==
    (IframeSearch /\ Boolean(call.predicate) /\ outcome.kind = "value") =>
        \A n \in Satisfying(call.predicate, call.rootDocument, call.maxDepth) :
            DepthOf(dom[outcome.node].owner) <= DepthOf(dom[n].owner)

\* C2 as amended: the iframe returned by findIframe / findIframeById /
\* findIframeByName is the first match, in document order, of the first
\* document in depth-first pre-order that holds an iframe satisfying P: it
\* wins over every match in the documents nested in its own document, and
\* over every match of a later branch, shallower or not.
C2_FirstDocumentInPreOrder ==
    (IframeSearch /\ Boolean(call.predicate) /\ outcome.kind = "value") =>
        /\ Satisfies(call.predicate, outcome.node)
        /\ \A n \in Satisfying(call.predicate, call.rootDocument, call.maxDepth) :
              /\ n # outcome.node => ElementBefore(outcome.node, n)
              /\ dom[outcome.node].owner \in Enclosing(dom[n].owner)
                     => DepthOf(dom[outcome.node].owner) <= DepthOf(dom[n].owner)

\* a match two documents down is returned while a later branch holds a match
\* one document down
C2_Witness ==
    /\ IframeSearch
    /\ Boolean(call.predicate)
    /\ outcome.kind = "value"
    /\ \E n \in Satisfying(call.predicate, call.rootDocument, call.maxDepth) :
          /\ DepthOf(dom[n].owner) < DepthOf(dom[outcome.node].owner)
          /\ DocBefore(dom[outcome.node].owner, dom[n].owner)

----------------------------------------------------------------------------
\* C3: with a finite maxDepth d the iframe searches look at exactly the
\* documents at depth 0..d: nothing deeper is returned, with d = 0 only an
\* iframe of the root document is, and null is returned exactly when no
\* document at depth 0..d holds a match.
C3_DepthLimit ==
    (IframeSearch /\ Boolean(call.predicate) /\ call.maxDepth.finite) =>
        LET depth(n) == DepthOf(dom[n].owner) - DepthOf(call.rootDocument)
            reach == {n \in Nodes : /\ Satisfies(call.predicate, n)
                                    /\ dom[n].owner \in ReachableFrom(call.rootDocument)}
        IN  /\ outcome.kind = "value" =>
                /\ outcome.node \in reach
                /\ depth(outcome.node) <= call.maxDepth.n
                /\ call.maxDepth.n = 0 => dom[outcome.node].owner = call.rootDocument
            /\ outcome.kind = "null" <=>
                   ~ \E n \in reach : depth(n) <= call.maxDepth.n

\* findIframeById("target", {maxDepth: 0}) is null while a nested document
\* holds the iframe with that id
C3_Witness ==
    /\ call.op = "findIframeById"
    /\ call.predicate = IdPredicate("target")
    /\ call.maxDepth = Finite(0)
    /\ outcome.kind = "null"
    /\ \E n \in Nodes : IsIframe(n) /\ dom[n].id = "target" /\ DepthOf(dom[n].owner) = 1

----------------------------------------------------------------------------
\* C4: an iframe whose nested document is absent or raises on access never
\* makes findIframe, findElement or findAllElements raise and never stops the
\* search: every match of the documents that are reachable is still found.
C4_UnreachableIsolated ==
    SomeUnreachable =>
        /\ (call.op = "findIframe" /\ Boolean(call.predicate)) =>
              /\ outcome.kind # "throw"
              /\ Satisfying(call.predicate, call.rootDocument, call.maxDepth) # {}
                     => outcome.kind = "value"
        /\ (call.op = "findElement" /\ ValidSelector(call.selector)) =>
              /\ outcome.kind # "throw"
              /\ Matching(call.selector, call.rootDocument, call.maxDepth) # {}
                     => outcome.kind = "value"
        /\ (call.op = "findAllElements" /\ ValidSelector(call.selector)) =>
              /\ outcome.kind = "value"
              /\ Range(outcome.list)
                     = Matching(call.selector, call.rootDocument, call.maxDepth)

\* the access to a nested iframe's document raises, and the match in the
\* subtree of a later sibling of its parent is found
C4_Witness ==
    /\ call.op = "findIframe"
    /\ Boolean(call.predicate)
    /\ outcome.kind = "value"
    /\ \E b \in Nodes :
          /\ IsIframe(b)
          /\ dom[b].content = "blocked"
          /\ DepthOf(dom[b].owner) = 1
          /\ DocBefore(dom[b].owner, dom[outcome.node].owner)
          /\ dom[b].owner \notin Enclosing(dom[outcome.node].owner)

----------------------------------------------------------------------------
\* C5: when an iframe of the root document satisfies the predicate, findIframe
\* returns the earliest such iframe of the root document, whatever maxDepth is
\* and whatever the nested documents hold.
C5_FirstInDocumentOrder ==
    (call.op = "findIframe" /\ Boolean(call.predicate)) =>
        LET local == {n \in IframesIn(call.rootDocument) :
                         Satisfies(call.predicate, n)}
        IN  local # {} =>
                /\ outcome.kind = "value"
                /\ outcome.node \in local
                /\ \A n \in local : outcome.node <= n

\* two iframes of the root match, after an iframe whose nested document holds
\* a match as well
C5_Witness ==
    /\ call.op = "findIframe"
    /\ Boolean(call.predicate)
    /\ outcome.kind = "value"
    /\ dom[outcome.node].owner = call.rootDocument
    /\ \E n \in IframesIn(call.rootDocument) :
          n > outcome.node /\ Satisfies(call.predicate, n)
    /\ \E a \in IframesIn(call.rootDocument), x \in Nodes :
          /\ a < outcome.node
          /\ dom[x].owner = a
          /\ Satisfies(call.predicate, x)

----------------------------------------------------------------------------
\* C6: findAllIframes returns exactly the iframes of the root document that
\* satisfy the predicate, in document order, and no iframe of a nested
\* document.
C6_FindAllIframesSingleLevel ==
    (call.op = "findAllIframes" /\ Boolean(call.predicate)) =>
        /\ outcome.kind = "value"
        /\ Range(outcome.list)
               = {n \in IframesIn(call.rootDocument) : Satisfies(call.predicate, n)}
        /\ \A i, j \in 1..Len(outcome.list) : i < j => outcome.list[i] < outcome.list[j]

\* iframe A of the root holds iframe B, both satisfy the predicate, and the
\* result is A alone
C6_Witness ==
    /\ call.op = "findAllIframes"
    /\ Boolean(call.predicate)
    /\ Len(outcome.list) = 1
    /\ \E b \in Nodes :
          /\ dom[b].owner = outcome.list[1]
          /\ Satisfies(call.predicate, b)

----------------------------------------------------------------------------
\* C7: findAllElements returns the pre-order concatenation of the match lists
\* of the documents within maxDepth: every match once, a document's own
\* matches in document order before those of its nested documents, and the
\* whole subtree of an iframe before that of the next iframe.
C7_PreOrderConcatenation ==
    (call.op = "findAllElements" /\ ValidSelector(call.selector)) =>
        /\ outcome.kind = "value"
        /\ Range(outcome.list)
               = Matching(call.selector, call.rootDocument, call.maxDepth)
        /\ \A i, j \in 1..Len(outcome.list) :
               i < j => ElementBefore(outcome.list[i], outcome.list[j])

\* the root's own matches, then a nested subtree two documents deep, then the
\* subtree of the next iframe
C7_Witness ==
    /\ call.op = "findAllElements"
    /\ Len(outcome.list) = 5
    /\ \E i, j \in 1..Len(outcome.list) : i < j /\ outcome.list[i] > outcome.list[j]
    /\ \E n \in Range(outcome.list) : DepthOf(dom[n].owner) = 2

----------------------------------------------------------------------------
\* C8: findAllElements with maxDepth 0 yields the elements, in the order, of
\* the root document's own querySelectorAll, whatever its iframes hold.
C8_MaxDepthZeroIsLocalQuery ==
    (/\ call.op = "findAllElements"
     /\ ValidSelector(call.selector)
     /\ call.maxDepth = Finite(0)) =>
        outcome = List(QuerySelectorAll(call.rootDocument, call.selector))

\* the root and a nested document both hold matches; only the root's are given
C8_Witness ==
    /\ call.op = "findAllElements"
    /\ call.maxDepth = Finite(0)
    /\ outcome.list # <<>>
    /\ \E n \in Matching(call.selector, call.rootDocument, Infinity) :
          dom[n].owner # call.rootDocument

----------------------------------------------------------------------------
\* C9: findElement returns an element matching the selector whenever a
\* document within maxDepth holds one, also when an earlier iframe of the same
\* level raises on access, and null only when none does.
C9_FindElementDespiteAccessError ==
    (call.op = "findElement" /\ ValidSelector(call.selector)) =>
        LET M == Matching(call.selector, call.rootDocument, call.maxDepth)
        IN  /\ M # {} => outcome.kind = "value" /\ outcome.node \in M
            /\ M = {} => outcome.kind = "null"

\* the first iframe of the root raises on access and the match is found in
\* the nested document of a later iframe of the root
C9_Witness ==
    /\ call.op = "findElement"
    /\ outcome.kind = "value"
    /\ DepthOf(dom[outcome.node].owner) = 1
    /\ \E b \in IframesIn(call.rootDocument) :
          /\ dom[b].content = "blocked"
          /\ b < dom[outcome.node].owner

----------------------------------------------------------------------------
\* the first pass over the iframes of doc ends by the predicate raising
FirstPassRaises(p, doc) ==
    \E n \in IframesIn(doc) :
        /\ ApplyPredicate(p, n) = "throw"
        /\ \A m \in IframesIn(doc) : m < n => ApplyPredicate(p, m) = "false"

\* C10: a failure that is not the nested-document access, raised while a
\* nested document is searched, is not turned into "skip this branch": the
\* predicate raising on an iframe one document down reaches the caller as it
\* does in the root document.
C10_NestedFailureReachesCaller ==
    (/\ call.op = "findIframe"
     /\ ~DepthExceeded(1, call.maxDepth)
     /\ IframesIn(call.rootDocument) # {}
     /\ \A n \in IframesIn(call.rootDocument) : ApplyPredicate(call.predicate, n) = "false"
     /\ LET first == CHOOSE n \in IframesIn(call.rootDocument) :
                         \A m \in IframesIn(call.rootDocument) : n <= m
        IN  dom[first].content = "doc" /\ FirstPassRaises(call.predicate, first)) =>
        outcome.kind = "throw"

----------------------------------------------------------------------------
\* C12: on the same page, with the same selector, root and maxDepth,
\* findElement is null exactly when findAllElements is empty and is otherwise
\* the first element of findAllElements (querySelector giving the first
\* element of querySelectorAll).
C12_FindElementIsFirstOfAll ==
    (call.op = "findElement" /\ ValidSelector(call.selector)) =>
        LET all == FindAllElements(call.selector, call.rootDocument, call.maxDepth)
        IN  /\ all.kind = "value"
            /\ outcome.kind \in {"value", "null"}
            /\ outcome.kind = "null" <=> all.list = <<>>
            /\ all.list # <<>> => outcome.node = all.list[1]

\* the element found lies in a nested document, behind an iframe that gives no
\* document, and findAllElements has more than that one element
C12_Witness ==
    /\ call.op = "findElement"
    /\ ValidSelector(call.selector)
    /\ outcome.kind = "value"
    /\ DepthOf(dom[outcome.node].owner) >= 1
    /\ SomeUnreachable
    /\ Len(FindAllElements(call.selector, call.rootDocument, call.maxDepth).list) >= 2


----------------------------------------------------------------------------
\* a call has begun and has not come back to its caller
Pending == call # Idle /\ outcome = NoCall

\* the call takes a boolean predicate or a valid selector
WellFormedCall ==
    IF IframeSearch \/ call.op = "findAllIframes" THEN Boolean(call.predicate)
    ELSE ValidSelector(call.selector)

\* no document occurs twice among those the recursive function was called on,
\* and each of them is reachable from the root
EnteredOnce ==
    /\ \A i, j \in 1..Len(run.entered) : run.entered[i] = run.entered[j] => i = j
    /\ Range(run.entered) \subseteq ReachableFrom(TopDocument)

\* C11: on every finite tree of nested documents, every public operation
\* (findIframe, findIframeById, findIframeByName, findAllIframes, findElement,
\* findAllElements), once called, eventually comes back to its caller, for
\* every maxDepth, the unbounded default included - with a value or null when
\* its predicate is boolean or its selector valid - and during one call no
\* reachable document is entered more than once.
C11_ReturnsEnteringOnce ==
    /\ [](EnteredOnce)
    /\ (Pending ~> outcome # NoCall)
    /\ ((Pending /\ WellFormedCall) ~> (outcome.kind \in {"value", "null"}))

C11_Witness ==
    /\ call.op \in {"findIframe", "findAllElements"}
    /\ call.maxDepth = Infinity
    /\ WellFormedCall
    /\ outcome # NoCall
    /\ Len(run.entered) >= 4
    /\ \E doc \in Range(run.entered) : DepthOf(doc) >= 2
    /\ \E doc \in Range(run.entered) : Cardinality(IframesIn(doc)) >= 2
    /\ run.steps = StepBudget

============================================================================
